---- MODULE Spec2Model ----
(***************************************************************************)
(* Model of the register_token instruction of the token bridge relayer     *)
(* (solana/programs/token_bridge_relayer/src/processor/register_token.rs). *)
(*                                                                         *)
(* The RegisterToken accounts struct is validated first (the               *)
(* init_if_needed account is created, then the has_one constraint is       *)
(* checked), then the register_token handler runs.  An instruction that    *)
(* returns Err aborts its transaction: every account change it staged,     *)
(* the account created by init_if_needed included, is discarded.           *)
(* Funding of the new account by the payer is outside this model.          *)
(***************************************************************************)
EXTENDS Integers, Sequences, FiniteSets, TLC

\* Bounds on the u64 instruction arguments.
MaxRate == 2
MaxAmount == 2

Rates == 0..MaxRate
Amounts == 0..MaxAmount

\* Keys that can sign as the `owner` account of the instruction.
Principals == {"alice", "bob"}

\* spl_token::native_mint::ID and two other mints.
NativeMint == "native"
Mints == {NativeMint, "mintA", "mintB"}

\* The transactions of the concurrent scenario.
TxIds == {"tx1", "tx2"}

VARIABLES
    config,       \* the SenderConfig account
    registry,     \* the RegisteredToken accounts that exist, keyed by mint
    last,         \* the last instruction processed and its result
    pending,      \* transactions submitted and not yet processed
    committed     \* transactions processed, in commit order

vars == <<config, registry, last, pending, committed>>

\* An instruction: the signer passed as `owner`, the mint, the two arguments.
Calls == [caller : Principals, mint : Mints,
          swap_rate : Rates, max_native_swap_amount : Amounts]

NoCall == [caller |-> "none", mint |-> "none", swap_rate |-> 0,
           max_native_swap_amount |-> 0, result |-> "None"]

\* The account data written by `init`: zeroed fields.
DefaultRegisteredToken ==
    [swap_rate |-> 0, max_native_swap_amount |-> 0, is_registered |-> FALSE]

\* init_if_needed on registered_token, seeds = ["mint", mint]: the account at
\* the mint's address is created if it does not exist, loaded otherwise.
InitIfNeeded(store, mint) ==
    IF mint \in DOMAIN store
    THEN store
    ELSE [k \in DOMAIN store \cup {mint} |->
            IF k = mint THEN DefaultRegisteredToken ELSE store[k]]

\* has_one = owner @ OwnerOnly: config.owner equals the key of `owner`.
HasOneOwnerAny(cfg, caller) ==
    TRUE

HasOneOwner(cfg, caller) ==
    cfg.owner = caller

\* RegisterToken accounts validation: init_if_needed runs before the has_one
\* constraint is checked.
TryAccounts(cfg, store, call) ==
    LET staged == InitIfNeeded(store, call.mint)
    IN  IF HasOneOwner(cfg, call.caller)
        THEN [err |-> "Ok", store |-> staged]
        ELSE [err |-> "OwnerOnly", store |-> staged]

\* require!(!registered_token.is_registered, TokenAlreadyRegistered)
NotRegisteredAny(account) ==
    TRUE

NotRegistered(account) ==
    ~account.is_registered

\* require!(swap_rate > 0, ZeroSwapRate)
NonZeroSwapRateAny(swap_rate) ==
    TRUE

NonZeroSwapRateAboveOne(swap_rate) ==
    swap_rate > 1

NonZeroSwapRate(swap_rate) ==
    swap_rate > 0

\* require!(mint.key() != native_mint::ID || max_native_swap_amount == 0, ...)
NativeMintCheckAny(mint, max_native_swap_amount) ==
    TRUE

NativeMintCheckInverted(mint, max_native_swap_amount) ==
    mint = NativeMint \/ max_native_swap_amount = 0

NativeMintCheck(mint, max_native_swap_amount) ==
    mint # NativeMint \/ max_native_swap_amount = 0

\* registered_token.set_inner(RegisteredToken { .. })
SetInnerSwapped(store, mint, swap_rate, max_native_swap_amount) ==
    [store EXCEPT ![mint] = [swap_rate |-> max_native_swap_amount,
                             max_native_swap_amount |-> swap_rate,
                             is_registered |-> TRUE]]

SetInnerEvery(store, mint, swap_rate, max_native_swap_amount) ==
    [k \in DOMAIN store |-> [swap_rate |-> swap_rate,
                             max_native_swap_amount |-> max_native_swap_amount,
                             is_registered |-> TRUE]]

SetInner(store, mint, swap_rate, max_native_swap_amount) ==
    [store EXCEPT ![mint] = [swap_rate |-> swap_rate,
                             max_native_swap_amount |-> max_native_swap_amount,
                             is_registered |-> TRUE]]

\* The body of register_token, on the accounts as validated.
HandlerRateFirst(store, call) ==
    IF ~NonZeroSwapRate(call.swap_rate)
    THEN [err |-> "ZeroSwapRate", store |-> store]
    ELSE IF ~NativeMintCheck(call.mint, call.max_native_swap_amount)
    THEN [err |-> "SwapsNotAllowedForNativeMint", store |-> store]
    ELSE IF ~NotRegistered(store[call.mint])
    THEN [err |-> "TokenAlreadyRegistered", store |-> store]
    ELSE [err |-> "Ok",
          store |-> SetInner(store, call.mint, call.swap_rate,
                             call.max_native_swap_amount)]

Handler(store, call) ==
    IF ~NotRegistered(store[call.mint])
    THEN [err |-> "TokenAlreadyRegistered", store |-> store]
    ELSE IF ~NonZeroSwapRate(call.swap_rate)
    THEN [err |-> "ZeroSwapRate", store |-> store]
    ELSE IF ~NativeMintCheck(call.mint, call.max_native_swap_amount)
    THEN [err |-> "SwapsNotAllowedForNativeMint", store |-> store]
    ELSE [err |-> "Ok",
          store |-> SetInner(store, call.mint, call.swap_rate,
                             call.max_native_swap_amount)]

\* The instruction: accounts validation, then the handler.
Instruction(cfg, store, call) ==
    LET accs == TryAccounts(cfg, store, call)
    IN  IF accs.err # "Ok" THEN accs ELSE Handler(accs.store, call)

\* The instruction as a transaction: Ok commits the staged accounts, Err
\* discards them.
ProcessNoRollback(cfg, store, call) ==
    Instruction(cfg, store, call)

Process(cfg, store, call) ==
    LET out == Instruction(cfg, store, call)
    IN  IF out.err = "Ok" THEN out ELSE [err |-> out.err, store |-> store]

Outcome(call, err) ==
    [caller |-> call.caller, mint |-> call.mint, swap_rate |-> call.swap_rate,
     max_native_swap_amount |-> call.max_native_swap_amount, result |-> err]

EmptyStore == [k \in {} |-> DefaultRegisteredToken]
NoPending == [t \in {} |-> NoCall]

----------------------------------------------------------------------------
\* Sequential specification: instructions are processed one at a time.

Init ==
    /\ config \in [owner : Principals]
    /\ registry = EmptyStore
    /\ last = NoCall
    /\ pending = NoPending
    /\ committed = <<>>

RegisterTokenWritesConfig(call) ==
    LET out == Process(config, registry, call)
    IN  /\ registry' = out.store
        /\ last' = Outcome(call, out.err)
        /\ config' = IF out.err = "Ok" THEN config ELSE [owner |-> call.caller]
        /\ UNCHANGED <<pending, committed>>

RegisterToken(call) ==
    LET out == Process(config, registry, call)
    IN  /\ registry' = out.store
        /\ last' = Outcome(call, out.err)
        /\ UNCHANGED <<config, pending, committed>>

Next == \E call \in Calls : RegisterToken(call)

Spec == Init /\ [][Next]_vars

----------------------------------------------------------------------------
\* Concurrent specification: the transactions of TxIds are all submitted
\* before any is processed; the runtime processes them one by one in any
\* order.

InitConc ==
    /\ config \in [owner : Principals]
    /\ registry = EmptyStore
    /\ last = NoCall
    /\ pending \in [TxIds -> Calls]
    /\ committed = <<>>

Commit(t) ==
    /\ t \in DOMAIN pending
    /\ LET call == pending[t]
           out == Process(config, registry, call)
       IN  /\ registry' = out.store
           /\ last' = Outcome(call, out.err)
           /\ committed' = Append(committed, [tx |-> t, call |-> call, result |-> out.err])
    /\ pending' = [u \in DOMAIN pending \ {t} |-> pending[u]]
    /\ UNCHANGED config

NextConc == \E t \in TxIds : Commit(t)

SpecConc == InitConc /\ [][NextConc]_vars

----------------------------------------------------------------------------
\* The error kinds of the instruction's error codes.
ErrorKind(err) ==
    CASE err = "OwnerOnly" -> "AuthorizationError"
      [] err = "TokenAlreadyRegistered" -> "StateConflict"
      [] err \in {"ZeroSwapRate", "SwapsNotAllowedForNativeMint"} -> "ValidationError"
      [] OTHER -> "None"

\* The record a successful call leaves.
RecordOf(call) ==
    [swap_rate |-> call.swap_rate,
     max_native_swap_amount |-> call.max_native_swap_amount,
     is_registered |-> TRUE]

IsRegistered(store, mint) ==
    mint \in DOMAIN store /\ store[mint].is_registered

\* A step of Spec that is not a stuttering step processes the call recorded
\* in last'.
Called == last'.caller \in Principals

\* C1: a call by a caller other than config.owner fails with OwnerOnly
\* (AuthorizationError), whatever its arguments and whether or not the mint
\* is registered, and the set of records and every record are as before.
C1_AuthorizationPrecedence ==
    [][(Called /\ last'.caller # config.owner)
        => /\ last'.result = "OwnerOnly"
           /\ ErrorKind(last'.result) = "AuthorizationError"
           /\ registry' = registry]_vars

\* A non-owner call on a registered mint, with a zero rate, was rejected.
C1_Witness ==
    /\ last.result = "OwnerOnly"
    /\ last.caller # config.owner
    /\ last.swap_rate = 0
    /\ IsRegistered(registry, last.mint)
    /\ \E m \in Mints : m \notin DOMAIN registry

\* C2: an owner call on a mint whose record has is_registered fails with
\* TokenAlreadyRegistered (StateConflict), for every swap_rate and
\* max_native_swap_amount, and the mint's record is as before.
C2_IdempotentReject ==
    [][(Called /\ last'.caller = config.owner /\ IsRegistered(registry, last'.mint))
        => /\ last'.result = "TokenAlreadyRegistered"
           /\ ErrorKind(last'.result) = "StateConflict"
           /\ last'.mint \in DOMAIN registry'
           /\ registry'[last'.mint] = registry[last'.mint]]_vars

\* An otherwise valid owner call with other values was rejected on a
\* registered mint.
C2_Witness ==
    /\ last.result = "TokenAlreadyRegistered"
    /\ last.caller = config.owner
    /\ last.swap_rate > 0
    /\ last.mint # NativeMint
    /\ IsRegistered(registry, last.mint)
    /\ registry[last.mint] # RecordOf(last)

\* C3: right after a successful call, the record of its mint is exactly
\* {swap_rate, max_native_swap_amount, is_registered: true} with the
\* arguments of that call.
C3_SingleSuccess ==
    last.result = "Ok"
        => /\ last.mint \in DOMAIN registry
           /\ registry[last.mint] = RecordOf(last)

\* A call succeeded with a nonzero max_native_swap_amount different from
\* its swap_rate.
C3_Witness ==
    /\ last.result = "Ok"
    /\ last.max_native_swap_amount > 0
    /\ last.max_native_swap_amount # last.swap_rate
    /\ registry[last.mint] = RecordOf(last)

\* C4 as stated: every owner call with swap_rate 0 fails with ZeroSwapRate
\* (ValidationError), and creates no record for a mint that had none.
C4_ZeroRateAlwaysValidationError ==
    [][(Called /\ last'.caller = config.owner /\ last'.swap_rate = 0)
        => /\ last'.result = "ZeroSwapRate"
           /\ ErrorKind(last'.result) = "ValidationError"
           /\ (last'.mint \notin DOMAIN registry
                 => last'.mint \notin DOMAIN registry')]_vars

\* C4 amended: an owner call with swap_rate 0 always fails; it fails with
\* ZeroSwapRate (ValidationError) when the mint is not already registered and
\* with TokenAlreadyRegistered (StateConflict) when it is; a mint without a
\* record has none after the call.
C4_ZeroRateRejection ==
    [][(Called /\ last'.caller = config.owner /\ last'.swap_rate = 0)
        => /\ (~IsRegistered(registry, last'.mint)
                 => /\ last'.result = "ZeroSwapRate"
                    /\ ErrorKind(last'.result) = "ValidationError")
           /\ (IsRegistered(registry, last'.mint)
                 => /\ last'.result = "TokenAlreadyRegistered"
                    /\ ErrorKind(last'.result) = "StateConflict")
           /\ (last'.mint \notin DOMAIN registry
                 => last'.mint \notin DOMAIN registry')]_vars

\* An owner call with swap_rate 0 on a mint without a record was rejected
\* with ZeroSwapRate and the mint still has no record.
C4_Witness ==
    /\ last.result = "ZeroSwapRate"
    /\ last.caller = config.owner
    /\ last.swap_rate = 0
    /\ last.mint \notin DOMAIN registry
    /\ \E m \in Mints : IsRegistered(registry, m)

\* C5 as stated: an owner call on the native mint with swap_rate > 0
\* succeeds if and only if max_native_swap_amount is 0, and fails with
\* SwapsNotAllowedForNativeMint (ValidationError) when it is not 0.
C5_NativeIffZeroAmount ==
    [][(Called /\ last'.caller = config.owner /\ last'.mint = NativeMint
          /\ last'.swap_rate > 0)
        => /\ (last'.result = "Ok" <=> last'.max_native_swap_amount = 0)
           /\ (last'.max_native_swap_amount # 0
                 => /\ last'.result = "SwapsNotAllowedForNativeMint"
                    /\ ErrorKind(last'.result) = "ValidationError")]_vars

\* C5 amended: the same, for a native mint that is not already registered.
C5_NativeAssetConstraint ==
    [][(Called /\ last'.caller = config.owner /\ last'.mint = NativeMint
          /\ last'.swap_rate > 0 /\ ~IsRegistered(registry, NativeMint))
        => /\ (last'.result = "Ok" <=> last'.max_native_swap_amount = 0)
           /\ (last'.max_native_swap_amount # 0
                 => /\ last'.result = "SwapsNotAllowedForNativeMint"
                    /\ ErrorKind(last'.result) = "ValidationError")]_vars

\* An owner call on the unregistered native mint with swap_rate > 0 and a
\* nonzero max_native_swap_amount was rejected.
C5_Witness ==
    /\ last.result = "SwapsNotAllowedForNativeMint"
    /\ last.caller = config.owner
    /\ last.mint = NativeMint
    /\ last.swap_rate > 0
    /\ last.max_native_swap_amount # 0
    /\ NativeMint \notin DOMAIN registry

\* C6: once a mint's record has is_registered, the record is the same in
\* every later state: no call clears the flag or changes swap_rate or
\* max_native_swap_amount.
C6_RegistrationFrozen ==
    [][\A mint \in Mints :
          IsRegistered(registry, mint)
            => /\ mint \in DOMAIN registry'
               /\ registry'[mint] = registry[mint]]_vars

\* An owner call with other valid values targeted a registered mint and the
\* record kept its values.
C6_Witness ==
    /\ last.caller = config.owner
    /\ last.swap_rate > 0
    /\ last.result # "Ok"
    /\ IsRegistered(registry, last.mint)
    /\ registry[last.mint].swap_rate # last.swap_rate
    /\ registry[last.mint].max_native_swap_amount # last.max_native_swap_amount

\* C7: every record with is_registered has swap_rate > 0.
C7_PositiveRate ==
    \A mint \in DOMAIN registry :
        registry[mint].is_registered => registry[mint].swap_rate > 0

\* Every mint is registered and the last call, with swap_rate 0, was
\* rejected.
C7_Witness ==
    /\ \A mint \in Mints : IsRegistered(registry, mint)
    /\ last.swap_rate = 0
    /\ last.caller = config.owner

\* C8: if the native mint's record has is_registered, its
\* max_native_swap_amount is 0.
C8_NativeSwapZero ==
    IsRegistered(registry, NativeMint)
        => registry[NativeMint].max_native_swap_amount = 0

\* The native mint is registered, after an owner call on it with a nonzero
\* max_native_swap_amount.
C8_Witness ==
    /\ IsRegistered(registry, NativeMint)
    /\ last.mint = NativeMint
    /\ last.caller = config.owner
    /\ last.max_native_swap_amount # 0

\* A call that passes every check when it is the only call on its mint.
ValidAlone(cfg, call) ==
    /\ call.caller = cfg.owner
    /\ call.swap_rate > 0
    /\ (call.mint = NativeMint => call.max_native_swap_amount = 0)

\* Both transactions were processed; they were valid owner calls on the same
\* mint, unregistered when they were submitted.
BothCommittedOnSameMint ==
    /\ Len(committed) = 2
    /\ committed[1].call.mint = committed[2].call.mint
    /\ ValidAlone(config, committed[1].call)
    /\ ValidAlone(config, committed[2].call)

\* C9: of two valid owner calls on the same unregistered mint submitted
\* together, in either commit order the first processed succeeds, the second
\* fails with TokenAlreadyRegistered (StateConflict), and the record is the
\* one of the first call.
C9_SerializedRegistration ==
    BothCommittedOnSameMint
        => /\ committed[1].result = "Ok"
           /\ committed[2].result = "TokenAlreadyRegistered"
           /\ ErrorKind(committed[2].result) = "StateConflict"
           /\ IsRegistered(registry, committed[1].call.mint)
           /\ registry[committed[1].call.mint] = RecordOf(committed[1].call)

\* The two calls differ in both fields and tx2 was processed first.
C9_Witness ==
    /\ BothCommittedOnSameMint
    /\ committed[1].tx = "tx2"
    /\ committed[1].call.swap_rate # committed[2].call.swap_rate
    /\ committed[1].call.max_native_swap_amount
         # committed[2].call.max_native_swap_amount
    /\ committed[2].result = "TokenAlreadyRegistered"

\* The result of a call when the checks are made in the order: caller is
\* the owner, mint not registered, swap_rate > 0, max_native_swap_amount 0
\* for the native mint.
FirstFailingCheck(cfg, store, call) ==
    IF call.caller # cfg.owner THEN "OwnerOnly"
    ELSE IF IsRegistered(store, call.mint) THEN "TokenAlreadyRegistered"
    ELSE IF call.swap_rate = 0 THEN "ZeroSwapRate"
    ELSE IF call.mint = NativeMint /\ call.max_native_swap_amount # 0
         THEN "SwapsNotAllowedForNativeMint"
    ELSE "Ok"

\* C10: the result of every call is the error of the earliest failing check
\* in the order owner, not registered, swap_rate > 0, native amount 0.
C10_PreconditionOrder ==
    [][Called => last'.result = FirstFailingCheck(config, registry, last')]_vars

\* An owner call on the registered native mint with swap_rate 0 and a
\* nonzero max_native_swap_amount returned TokenAlreadyRegistered.
C10_Witness ==
    /\ last.caller = config.owner
    /\ last.mint = NativeMint
    /\ IsRegistered(registry, NativeMint)
    /\ last.swap_rate = 0
    /\ last.max_native_swap_amount # 0
    /\ last.result = "TokenAlreadyRegistered"

\* C11: a call that returns an error leaves the set of records and every
\* record as they were; the record init_if_needed creates for a mint without
\* one is not there after a failed call.
C11_AbortWithoutEffect ==
    [][(Called /\ last'.result # "Ok") => registry' = registry]_vars

\* An owner call failed in the handler on a mint without a record, after
\* init_if_needed had created one, and the mint has no record.
C11_Witness ==
    /\ last.caller = config.owner
    /\ last.result \in {"ZeroSwapRate", "SwapsNotAllowedForNativeMint"}
    /\ last.mint \notin DOMAIN registry

\* C12: no call, successful or failed, changes the config account; its
\* owner is the same after the call as before.
C12_ConfigReadOnly ==
    [][Called => (config' = config /\ config'.owner = config.owner)]_vars

\* A call by another key than the owner was rejected after a call of the
\* owner had succeeded, and the other key is not the owner.
C12_Witness ==
    /\ last.result = "OwnerOnly"
    /\ last.caller # config.owner
    /\ \E mint \in Mints : IsRegistered(registry, mint)

\* The condition under which a call succeeds.
SuccessCondition(cfg, store, call) ==
    /\ call.caller = cfg.owner
    /\ ~IsRegistered(store, call.mint)
    /\ call.swap_rate > 0
    /\ (call.mint # NativeMint \/ call.max_native_swap_amount = 0)

\* C13: a call succeeds if and only if the caller is the owner, the mint is
\* not already registered, swap_rate > 0 and the mint is not the native mint
\* or max_native_swap_amount is 0; an owner call on an unregistered mint
\* other than the native one succeeds for every swap_rate >= 1 and every
\* max_native_swap_amount.
C13_ExactSuccessCondition ==
    [][Called =>
        /\ (last'.result = "Ok" <=> SuccessCondition(config, registry, last'))
        /\ ((/\ last'.caller = config.owner
             /\ last'.mint # NativeMint
             /\ ~IsRegistered(registry, last'.mint)
             /\ last'.swap_rate >= 1)
              => last'.result = "Ok")]_vars

\* An owner call on a mint other than the native one succeeded with the
\* largest swap_rate and a nonzero max_native_swap_amount.
C13_Witness ==
    /\ last.result = "Ok"
    /\ last.mint # NativeMint
    /\ last.swap_rate = MaxRate
    /\ last.max_native_swap_amount = MaxAmount
    /\ last.max_native_swap_amount # 0

\* C14: a call on a mint leaves every other mint as it was: a record that
\* existed is unchanged and a mint without a record has none.
C14_PerAssetIsolation ==
    [][Called =>
        \A other \in Mints \ {last'.mint} :
            /\ (other \in DOMAIN registry' <=> other \in DOMAIN registry)
            /\ (other \in DOMAIN registry
                  => registry'[other] = registry[other])]_vars

\* A call succeeded on a mint while another mint was registered with other
\* values and a third had no record.
C14_Witness ==
    /\ last.result = "Ok"
    /\ \E other \in Mints \ {last.mint} :
          /\ IsRegistered(registry, other)
          /\ registry[other].swap_rate # last.swap_rate
    /\ \E other \in Mints \ {last.mint} : other \notin DOMAIN registry

\* C15: a record exists for a mint if and only if it has is_registered; no
\* record with is_registered false is left between calls.
C15_NoUnregisteredRecord ==
    \A mint \in Mints :
        mint \in DOMAIN registry <=> IsRegistered(registry, mint)

\* The last call failed on a mint without a record: that mint still has no
\* record, and another mint is registered.
C15_Witness ==
    /\ last.result # "Ok"
    /\ last.caller \in Principals
    /\ last.mint \notin DOMAIN registry
    /\ \E mint \in Mints : IsRegistered(registry, mint)
    /\ \E mint \in Mints : mint \notin DOMAIN registry

====
